---- MODULE Spec2Model ----
(***************************************************************************)
(* Model of video2psp (src/video2psp/psp.py): one run of main(), from the  *)
(* parsed command line to process exit.  External collaborators (ffprobe,   *)
(* ffmpeg, the console) are nondeterministic choices over small sets.       *)
(*                                                                         *)
(* Python values: an optional value is None (<<>>) or Some(v) (<<v>>);      *)
(* a line typed at a prompt is a sequence of one-character strings; a       *)
(* command line is a sequence of strings built with the same formatting     *)
(* the f-strings of the source perform.                                     *)
(*                                                                         *)
(* A stream descriptor keeps the two keys the control flow reads ('index',  *)
(* 'codec_type'); codec name, language and title are only echoed in the     *)
(* track listing and are left out.                                          *)
(***************************************************************************)
EXTENDS Integers, Sequences, FiniteSets, TLC

\* ---------------------------------------------------------------- bounds
MaxStreams == 3
MaxInputLen == 2

\* ---------------------------------------------------------- Python values
None == <<>>
Some(v) == <<v>>

\* str(x) inside an f-string, for an optional integer
Fmt(opt) == IF opt = None THEN "None" ELSE ToString(opt[1])

\* truth value of an optional string: None and '' are falsy
Truthy(opt) == opt # None /\ opt[1] # ""

\* list[i] with Python's negative indexing (callers keep -len <= i < len)
PyIndex(list, i) == IF i < 0 THEN list[Len(list) + i + 1] ELSE list[i + 1]

\* ------------------------------------------------------------ int(string)
Chars == {" ", "-", "0", "1", "x"}
Digits == {"0", "1"}
Lines == UNION {[1..n -> Chars] : n \in 0..MaxInputLen}

DigitVal(c) == IF c = "1" THEN 1 ELSE 0

RECURSIVE lstrip(_)
lstrip(s) == IF s # <<>> /\ Head(s) = " " THEN lstrip(Tail(s)) ELSE s

RECURSIVE rstrip(_)
rstrip(s) ==
    IF s # <<>> /\ s[Len(s)] = " " THEN rstrip(SubSeq(s, 1, Len(s) - 1)) ELSE s

strip(s) == rstrip(lstrip(s))

RECURSIVE DecimalValue(_)
DecimalValue(ds) ==
    IF ds = <<>> THEN 0
    ELSE 10 * DecimalValue(SubSeq(ds, 1, Len(ds) - 1)) + DigitVal(ds[Len(ds)])

\* int(s): surrounding whitespace stripped, optional sign, at least one
\* digit, nothing else; anything else raises ValueError
ValueError == None
int(s) ==
    LET t == strip(s)
        signed == t # <<>> /\ t[1] = "-"
        body == IF signed THEN Tail(t) ELSE t
    IN  IF body = <<>> \/ \E i \in 1..Len(body) : body[i] \notin Digits
        THEN ValueError
        ELSE Some(IF signed THEN 0 - DecimalValue(body) ELSE DecimalValue(body))

\* ------------------------------------------------------- probe, classify
CodecTypes == {"video", "audio", "subtitle"}

\* the 'streams' array of ffprobe -show_streams: stream i has index i
StreamLists ==
    {[i \in 1..Len(f) |-> [index |-> i - 1, codec_type |-> f[i]]] :
        f \in UNION {[1..n -> CodecTypes] : n \in 0..MaxStreams}}

\* the outcomes of subprocess.run(['ffprobe', ...]) followed by json.loads
ProbeErrors == {"FileNotFoundError", "CalledProcessError", "JSONDecodeError"}
ProbeResults ==
    {[outcome |-> "ok", streams |-> s] : s \in StreamLists}
        \cup {[outcome |-> e, streams |-> <<>>] : e \in ProbeErrors}

\* the message ffprobe_streams prints before sys.exit(1)
ffprobe_error_message(e) ==
    CASE e = "FileNotFoundError" -> "Error: 'ffprobe' not found."
      [] e = "CalledProcessError" -> "Error: ffprobe returned a non-zero exit status."
      [] e = "JSONDecodeError" -> "Error: Could not parse ffprobe output as JSON."

\* mutant: 'else' in place of the test for 'subtitle'
track_kind_else_subtitle(codec_type) ==
    IF codec_type = "audio" THEN "audio" ELSE "subtitle"

\* the list a descriptor is appended to: 'audio', 'subtitle', or neither
track_kind(codec_type) ==
    IF codec_type = "audio" THEN "audio"
    ELSE IF codec_type = "subtitle" THEN "subtitle"
    ELSE "dropped"

\* the loop of list_tracks over the probe's streams, in order
RECURSIVE classify(_, _, _)
classify(streams, audio_acc, subtitle_acc) ==
    IF streams = <<>> THEN [audio |-> audio_acc, subtitle |-> subtitle_acc]
    ELSE LET s == Head(streams)
             t == [ff_index |-> s.index]
             k == track_kind(s.codec_type)
         IN  classify(Tail(streams),
                      IF k = "audio" THEN Append(audio_acc, t) ELSE audio_acc,
                      IF k = "subtitle" THEN Append(subtitle_acc, t) ELSE subtitle_acc)

list_tracks(streams) == classify(streams, <<>>, <<>>)

\* -------------------------------------------------------- command builder
input_file == "movie.mkv"
output_file == "movie.mp4"
base_vf == "scale=480:-2"

\* mutant: the embedded index is looked at before the external path
subtitle_source_embedded_first(external_subs, subtitle_track_index) ==
    IF subtitle_track_index # None THEN "embedded"
    ELSE IF Truthy(external_subs) THEN "external"
    ELSE "none"

\* which branch of the subtitle policy build_ffmpeg_command takes
subtitle_source(external_subs, subtitle_track_index) ==
    IF Truthy(external_subs) THEN "external"
    ELSE IF subtitle_track_index # None THEN "embedded"
    ELSE "none"

external_vf(external_subs) ==
    base_vf \o ",subtitles='" \o external_subs[1] \o "'"

\* mutant: the global stream index in place of the position
sub_order_global(subtitle_tracks, subtitle_track_index) ==
    IF \E i \in 1..Len(subtitle_tracks) :
            Some(subtitle_tracks[i].ff_index) = subtitle_track_index
    THEN subtitle_track_index
    ELSE None

\* position of the first subtitle track whose ff_index is the requested one
sub_order_of(subtitle_tracks, subtitle_track_index) ==
    LET hits == {i \in 1..Len(subtitle_tracks) :
                    Some(subtitle_tracks[i].ff_index) = subtitle_track_index}
    IN  IF hits = {} THEN None
        ELSE Some((CHOOSE i \in hits : \A j \in hits : i <= j) - 1)

\* mutant: the burn-in filter is formatted whether or not a track was found
embedded_vf_always(sub_order) ==
    base_vf \o ",subtitles='" \o input_file \o ":si=" \o Fmt(sub_order) \o "'"

\* the filter of the embedded branch once the position search has ended
embedded_vf(sub_order) ==
    IF sub_order = None THEN base_vf
    ELSE base_vf \o ",subtitles='" \o input_file \o ":si=" \o Fmt(sub_order) \o "'"

\* the argument list, given the audio index and the video filter
ffmpeg_command(audio_track_index, vf_filter) ==
    <<"ffmpeg", "-hide_banner", "-loglevel", "error", "-stats", "-y",
      "-i", input_file,
      "-map", "0:v:0",
      "-map", "0:" \o Fmt(audio_track_index),
      "-vf", vf_filter,
      "-c:v", "libx264", "-profile:v", "baseline", "-level:v", "3.0",
      "-b:v", "768k", "-maxrate", "768k", "-bufsize", "2000k",
      "-r", "29.97", "-c:a", "aac", "-b:a", "128k", "-ac", "2",
      output_file>>

\* ---------------------------------------------------------------- driver
AudioFlags == {None, Some(1)}
SubtitleFlags == {None, Some(2)}
ExternalFlags == {None, Some(""), Some("subs.srt")}
ReturnCodes == {0, 1}

\* mutant: the empty-audio check is missing
no_audio_unchecked(audio_tracks) == FALSE

\* 'if not audio_tracks'
no_audio(audio_tracks) == audio_tracks = <<>>

\* mutant: the lower bound of the range test is missing
audio_choice_no_lower_bound(n, audio_tracks) == n < Len(audio_tracks)

\* the range test of the audio prompt
audio_choice_ok(n, audio_tracks) == 0 <= n /\ n < Len(audio_tracks)

\* the range test of the subtitle prompt
subtitle_choice_ok(n, subtitle_tracks) == 0 <= n /\ n < Len(subtitle_tracks)

\* blank input at the subtitle prompt stands for '-1'
blank_as_minus_one(line) == IF strip(line) = <<>> THEN <<"-", "1">> ELSE line

\* mutant: ffmpeg's status becomes the exit status
status_propagated(returncode) == returncode

\* the status main() ends with after subprocess.run(cmd, check=True) returned
\* or raised CalledProcessError
status_after_ffmpeg(returncode) == 0

VARIABLES
    pc,                    \* where main() is
    args,                  \* the parsed command line
    streams,               \* what the probe of main's list_tracks returned
    audio_tracks,          \* main's lists
    subtitle_tracks,
    audio_track_index,     \* main's selections
    subtitle_track_index,
    user_choice,           \* the line input() returned, while it is checked
    build_streams,         \* what the probe of the builder's list_tracks returned
    build_subtitle_tracks, \* the builder's own list
    sub_order,
    cmd,                   \* the built command, or None
    built,                 \* build_ffmpeg_command has been entered
    probes,                \* outcome of every ffprobe invocation so far
    prompted,              \* input() has been called
    ffmpeg_calls,          \* subprocess.run(cmd) calls
    returncode,            \* ffmpeg's exit status, if it was launched
    stdout,                \* messages printed so far
    last_print,            \* the most recent message
    exit_status,           \* process exit status, None while running
    uncaught               \* exception that escaped main, or None

mainLists == <<streams, audio_tracks, subtitle_tracks>>
selection == <<audio_track_index, subtitle_track_index>>
builder == <<build_streams, build_subtitle_tracks, sub_order, cmd>>
output == <<stdout, last_print>>
ffmpeg == <<ffmpeg_calls, returncode, uncaught>>

vars == <<pc, args, mainLists, selection, user_choice, builder, built, probes,
          prompted, ffmpeg, output, exit_status>>

\* print(m1); print(m2); ...
Say(ms) ==
    /\ stdout' = stdout \cup {ms[i] : i \in 1..Len(ms)}
    /\ last_print' = ms[Len(ms)]

\* sys.exit(code)
Exit(code) ==
    /\ pc' = "exited"
    /\ exit_status' = Some(code)

Init ==
    /\ pc = "list_tracks"
    /\ args \in [audio_track : AudioFlags, subtitle_track : SubtitleFlags,
                 external_subs : ExternalFlags]
    /\ audio_track_index = args.audio_track
    /\ subtitle_track_index = args.subtitle_track
    /\ streams = <<>>
    /\ audio_tracks = <<>>
    /\ subtitle_tracks = <<>>
    /\ user_choice = None
    /\ build_streams = <<>>
    /\ build_subtitle_tracks = <<>>
    /\ sub_order = None
    /\ cmd = None
    /\ built = FALSE
    /\ probes = <<>>
    /\ prompted = FALSE
    /\ ffmpeg_calls = 0
    /\ returncode = None
    /\ stdout = {}
    /\ last_print = ""
    /\ exit_status = None
    /\ uncaught = None

\* audio_tracks, subtitle_tracks = list_tracks(input_file)   (in main)
ListTracks ==
    /\ pc = "list_tracks"
    /\ \E r \in ProbeResults :
        /\ probes' = Append(probes, r.outcome)
        /\ IF r.outcome = "ok"
           THEN /\ streams' = r.streams
                /\ audio_tracks' = list_tracks(r.streams).audio
                /\ subtitle_tracks' = list_tracks(r.streams).subtitle
                /\ pc' = "check_audio"
                /\ UNCHANGED <<output, exit_status>>
           ELSE /\ Say(<<ffprobe_error_message(r.outcome)>>)
                /\ Exit(1)
                /\ UNCHANGED mainLists
    /\ UNCHANGED <<args, selection, user_choice, builder, built, prompted, ffmpeg>>

\* the empty-audio check and the audio selection up to the first input()
CheckAudio ==
    /\ pc = "check_audio"
    /\ IF no_audio(audio_tracks)
       THEN /\ Say(<<"Error: No audio tracks found in the input file. Exiting.">>)
            /\ Exit(1)
            /\ UNCHANGED selection
       ELSE IF audio_track_index = None
       THEN IF Len(audio_tracks) = 1
            THEN /\ Say(<<"Detected 1 AUDIO track!">>)
                 /\ audio_track_index' = Some(audio_tracks[1].ff_index)
                 /\ pc' = "subtitles"
                 /\ UNCHANGED <<subtitle_track_index, exit_status>>
            ELSE /\ Say(<<"Detected the following AUDIO tracks:">>)
                 /\ pc' = "audio_input"
                 /\ UNCHANGED <<selection, exit_status>>
       ELSE /\ pc' = "subtitles"
            /\ UNCHANGED <<selection, output, exit_status>>
    /\ UNCHANGED <<args, mainLists, user_choice, builder, built, probes, prompted,
                   ffmpeg>>

\* user_choice = input("Select which audio track ...")
AudioInput ==
    /\ pc = "audio_input"
    /\ \E line \in Lines : user_choice' = Some(line)
    /\ prompted' = TRUE
    /\ pc' = "audio_check"
    /\ UNCHANGED <<args, mainLists, selection, builder, built, probes, ffmpeg,
                   output, exit_status>>

\* the body of the audio loop after input() returned
AudioCheck ==
    /\ pc = "audio_check"
    /\ LET user_choice_int == int(user_choice[1])
       IN  IF user_choice_int = ValueError
           THEN /\ Say(<<"Invalid input. Try again.">>)
                /\ pc' = "audio_input"
                /\ UNCHANGED selection
           ELSE IF audio_choice_ok(user_choice_int[1], audio_tracks)
           THEN /\ audio_track_index' =
                       Some(PyIndex(audio_tracks, user_choice_int[1]).ff_index)
                /\ pc' = "subtitles"
                /\ UNCHANGED <<subtitle_track_index, output>>
           ELSE /\ Say(<<"Invalid choice. Try again.">>)
                /\ pc' = "audio_input"
                /\ UNCHANGED selection
    /\ user_choice' = None
    /\ UNCHANGED <<args, mainLists, builder, built, probes, prompted, ffmpeg,
                   exit_status>>

\* the subtitle selection up to its first input()
SubtitleSelect ==
    /\ pc = "subtitles"
    /\ IF args.external_subs = None /\ subtitle_track_index = None
       THEN IF subtitle_tracks # <<>>
            THEN /\ Say(<<"Detected the following SUBTITLE tracks:",
                          "Enter -1 (or leave blank) if you do not want to burn any embedded subtitles.">>)
                 /\ pc' = "subtitle_input"
            ELSE /\ Say(<<"No embedded subtitle tracks found.">>)
                 /\ pc' = "build"
       ELSE /\ pc' = "build"
            /\ UNCHANGED output
    /\ UNCHANGED <<args, mainLists, selection, user_choice, builder, built, probes,
                   prompted, ffmpeg, exit_status>>

\* user_sub_choice = input("Select which subtitle track ...")
SubtitleInput ==
    /\ pc = "subtitle_input"
    /\ \E line \in Lines : user_choice' = Some(line)
    /\ prompted' = TRUE
    /\ pc' = "subtitle_check"
    /\ UNCHANGED <<args, mainLists, selection, builder, built, probes, ffmpeg,
                   output, exit_status>>

\* the body of the subtitle loop after input() returned
SubtitleCheck ==
    /\ pc = "subtitle_check"
    /\ LET user_sub_choice_int == int(blank_as_minus_one(user_choice[1]))
       IN  IF user_sub_choice_int = ValueError
           THEN /\ Say(<<"Invalid input. Try again.">>)
                /\ pc' = "subtitle_input"
                /\ UNCHANGED selection
           ELSE IF user_sub_choice_int[1] = -1
           THEN /\ subtitle_track_index' = None
                /\ pc' = "build"
                /\ UNCHANGED <<audio_track_index, output>>
           ELSE IF subtitle_choice_ok(user_sub_choice_int[1], subtitle_tracks)
           THEN /\ subtitle_track_index' =
                       Some(PyIndex(subtitle_tracks, user_sub_choice_int[1]).ff_index)
                /\ pc' = "build"
                /\ UNCHANGED <<audio_track_index, output>>
           ELSE /\ Say(<<"Invalid choice. Try again.">>)
                /\ pc' = "subtitle_input"
                /\ UNCHANGED selection
    /\ user_choice' = None
    /\ UNCHANGED <<args, mainLists, builder, built, probes, prompted, ffmpeg,
                   exit_status>>

\* cmd = build_ffmpeg_command(...): entry, up to its list_tracks call or,
\* on the branches without one, to its return and main's next print
Build ==
    /\ pc = "build"
    /\ built' = TRUE
    /\ LET source == subtitle_source(args.external_subs, subtitle_track_index)
       IN  IF source = "embedded"
           THEN /\ pc' = "build_list_tracks"
                /\ UNCHANGED <<cmd, output>>
           ELSE /\ cmd' = Some(ffmpeg_command(audio_track_index,
                                   IF source = "external"
                                   THEN external_vf(args.external_subs)
                                   ELSE base_vf))
                /\ Say(<<"Running FFmpeg:">>)
                /\ pc' = "run"
    /\ UNCHANGED <<args, mainLists, selection, user_choice, build_streams,
                   build_subtitle_tracks, sub_order, probes, prompted, ffmpeg,
                   exit_status>>

\* audio_tracks, subtitle_tracks = list_tracks(input_file)   (in the builder),
\* the position search, and the rest of the builder
BuildListTracks ==
    /\ pc = "build_list_tracks"
    /\ \E r \in ProbeResults :
        /\ probes' = Append(probes, r.outcome)
        /\ IF r.outcome = "ok"
           THEN LET subs == list_tracks(r.streams).subtitle
                    order == sub_order_of(subs, subtitle_track_index)
                IN  /\ build_streams' = r.streams
                    /\ build_subtitle_tracks' = subs
                    /\ sub_order' = order
                    /\ cmd' = Some(ffmpeg_command(audio_track_index,
                                                  embedded_vf(order)))
                    /\ Say(IF order = None
                           THEN <<"Warning: Could not find the specified subtitle track among embedded subtitles.",
                                  "Skipping subtitle burn-in.", "Running FFmpeg:">>
                           ELSE <<"Running FFmpeg:">>)
                    /\ pc' = "run"
                    /\ UNCHANGED exit_status
           ELSE /\ Say(<<ffprobe_error_message(r.outcome)>>)
                /\ Exit(1)
                /\ UNCHANGED builder
    /\ UNCHANGED <<args, mainLists, selection, user_choice, built, prompted, ffmpeg>>

\* subprocess.run(cmd, check=True) with ffmpeg on the path: it runs to exit
RunFfmpeg ==
    /\ pc = "run"
    /\ \E rc \in ReturnCodes :
        /\ returncode' = Some(rc)
        /\ Say(<<IF rc = 0
                 THEN "Successfully created PSP video: " \o output_file
                 ELSE "Error: FFmpeg command failed.">>)
        /\ exit_status' = Some(status_after_ffmpeg(rc))
    /\ ffmpeg_calls' = ffmpeg_calls + 1
    /\ pc' = "exited"
    /\ UNCHANGED <<args, mainLists, selection, user_choice, builder, built, probes,
                   prompted, uncaught>>

\* subprocess.run(cmd, check=True) without ffmpeg on the path: FileNotFoundError
\* is raised, no handler of main catches it, the interpreter exits with 1
RunFfmpegNotFound ==
    /\ pc = "run"
    /\ ffmpeg_calls' = ffmpeg_calls + 1
    /\ uncaught' = Some("FileNotFoundError")
    /\ Exit(1)
    /\ UNCHANGED <<args, mainLists, selection, user_choice, builder, built, probes,
                   prompted, returncode, output>>

Next ==
    \/ ListTracks
    \/ CheckAudio
    \/ AudioInput
    \/ AudioCheck
    \/ SubtitleSelect
    \/ SubtitleInput
    \/ SubtitleCheck
    \/ Build
    \/ BuildListTracks
    \/ RunFfmpeg
    \/ RunFfmpegNotFound

Spec == Init /\ [][Next]_vars

\* ------------------------------------------------------------ properties
\* the argument following '-vf' in a command
VideoFilter(c) == c[(CHOOSE i \in 1..Len(c) : c[i] = "-vf") + 1]

\* the argument following the second '-map' in a command
AudioMap(c) ==
    c[(CHOOSE i \in 1..Len(c) :
          c[i] = "-map" /\ \E j \in 1..(i - 1) : c[j] = "-map") + 1]

\* positions of the streams of one codec type in a probe result
Of(strs, type) == {i \in 1..Len(strs) : strs[i].codec_type = type}

\* number of subtitle streams that precede the subtitle stream with this index
SubtitlePosition(strs, idx) ==
    LET at == CHOOSE i \in Of(strs, "subtitle") : strs[i].index = idx
    IN  Cardinality({j \in Of(strs, "subtitle") : j < at})

HasSubtitle(strs, idx) == \E i \in Of(strs, "subtitle") : strs[i].index = idx

FirstProbeOk == probes # <<>> /\ probes[1] = "ok"
SecondProbeOk == Len(probes) = 2 /\ probes[2] = "ok"

RepromptWarnings == {"Invalid input. Try again.", "Invalid choice. Try again."}
NoAudioMessage == "Error: No audio tracks found in the input file. Exiting."
SuccessMessage == "Successfully created PSP video: movie.mp4"
FailureMessage == "Error: FFmpeg command failed."
SkipWarning ==
    "Warning: Could not find the specified subtitle track among embedded subtitles."

\* C1: whenever build_ffmpeg_command has been entered, the audio index it was
\* handed is the ff_index of exactly one track of the classified audio list
\* (a run that cannot satisfy this never reaches the builder, the second
\* probe or ffmpeg).
C1_AudioIndexResolves ==
    (built \/ Len(probes) > 1 \/ ffmpeg_calls > 0) =>
        Cardinality({i \in 1..Len(audio_tracks) :
                        Some(audio_tracks[i].ff_index) = audio_track_index}) = 1

\* C2: a first probe that reports no audio stream ends the run with status 1
\* before any prompt, before the builder is entered and before ffmpeg is run,
\* whatever the flags.
C2_NoAudioAborts ==
    (FirstProbeOk /\ Of(streams, "audio") = {}) =>
        /\ pc \in {"check_audio", "exited"}
        /\ pc = "exited" => exit_status = Some(1) /\ last_print = NoAudioMessage
        /\ ~prompted
        /\ ~built
        /\ cmd = None
        /\ Len(probes) = 1
        /\ ffmpeg_calls = 0

C2_Witness ==
    /\ pc = "exited"
    /\ FirstProbeOk
    /\ Len(streams) = 2
    /\ Of(streams, "audio") = {}
    /\ args.audio_track # None
    /\ args.external_subs # None
    /\ exit_status = Some(1)

\* C3: when an external subtitle path and an embedded subtitle index are both
\* supplied, the filter of the built command is the burn-in of the external
\* path, for every value of the path.
C3_ExternalPrecedence ==
    (cmd # None /\ args.external_subs # None /\ args.subtitle_track # None) =>
        VideoFilter(cmd[1]) =
            "scale=480:-2,subtitles='" \o args.external_subs[1] \o "'"

\* C4: with no external path in effect and a requested index present among
\* the subtitle streams of the builder's probe, the filter's si is the
\* zero-based position of that stream among the subtitle streams.
C4_SubtitlePosition ==
    (cmd # None /\ SecondProbeOk
        /\ HasSubtitle(build_streams, subtitle_track_index[1])) =>
        VideoFilter(cmd[1]) =
            "scale=480:-2,subtitles='movie.mkv:si="
                \o ToString(SubtitlePosition(build_streams, subtitle_track_index[1]))
                \o "'"

C4_Witness ==
    /\ cmd # None
    /\ SecondProbeOk
    /\ subtitle_track_index = Some(2)
    /\ Len(build_subtitle_tracks) = 2
    /\ build_subtitle_tracks[2].ff_index = 2
    /\ VideoFilter(cmd[1]) = "scale=480:-2,subtitles='movie.mkv:si=1'"

\* C5: with no external path in effect and a requested index absent from the
\* subtitle streams of the builder's probe, the warning is printed, the run
\* goes on to ffmpeg, and the command is, argument for argument, the one built
\* with no subtitle selection.
C5_AbsentSubtitle ==
    (SecondProbeOk /\ ~HasSubtitle(build_streams, subtitle_track_index[1])) =>
        /\ SkipWarning \in stdout
        /\ cmd = Some(ffmpeg_command(audio_track_index, "scale=480:-2"))
        /\ pc \in {"run", "exited"}
        /\ pc = "exited" => ffmpeg_calls = 1

C5_Witness ==
    /\ pc = "run"
    /\ SecondProbeOk
    /\ subtitle_track_index = Some(2)
    /\ build_subtitle_tracks # <<>>
    /\ sub_order = None
    /\ VideoFilter(cmd[1]) = "scale=480:-2"

\* C6: in both prompt loops a line that is not an integer, or an integer
\* outside 0..len-1, prints a warning, leaves the selections unchanged, keeps
\* the run alive and returns to the prompt; the audio loop leaves only with
\* the track of a valid display index, the subtitle loop only with that or,
\* on -1 or a blank line, with no subtitle.
Blank(line) == \A i \in 1..Len(line) : line[i] = " "

C6_Reprompt(again) ==
    /\ pc' = again
    /\ UNCHANGED selection
    /\ last_print' \in RepromptWarnings
    /\ exit_status' = None

C6_AudioLoop ==
    LET n == int(user_choice[1])
    IN  IF n # ValueError /\ n[1] \in 0..(Len(audio_tracks) - 1)
        THEN /\ pc' = "subtitles"
             /\ audio_track_index' = Some(audio_tracks[n[1] + 1].ff_index)
        ELSE C6_Reprompt("audio_input")

C6_SubtitleLoop ==
    LET n == int(user_choice[1])
    IN  IF Blank(user_choice[1]) \/ n = Some(-1)
        THEN /\ pc' = "build"
             /\ subtitle_track_index' = None
        ELSE IF n # ValueError /\ n[1] \in 0..(Len(subtitle_tracks) - 1)
        THEN /\ pc' = "build"
             /\ subtitle_track_index' = Some(subtitle_tracks[n[1] + 1].ff_index)
        ELSE C6_Reprompt("subtitle_input")

C6_PromptLoops ==
    [][/\ pc = "audio_check" => C6_AudioLoop
       /\ pc = "subtitle_check" => C6_SubtitleLoop
       /\ (pc = "audio_input" /\ pc' # "audio_input") => pc' = "audio_check"
       /\ (pc = "subtitle_input" /\ pc' # "subtitle_input") => pc' = "subtitle_check"]_vars

C6_Witness ==
    /\ pc = "subtitle_input"
    /\ prompted
    /\ last_print = "Invalid input. Try again."
    /\ "Invalid choice. Try again." \in stdout
    /\ args.audio_track # None
    /\ subtitle_track_index = None

\* C7: every fatal error kind ends the run with a non-zero status and, as the
\* last thing printed, a message describing the error.
FatalMessages ==
    {ffprobe_error_message(e) : e \in ProbeErrors}
        \cup {NoAudioMessage, "Error: 'ffmpeg' not found."}

FatalOccurred ==
    \/ \E i \in 1..Len(probes) : probes[i] \in ProbeErrors
    \/ FirstProbeOk /\ Of(streams, "audio") = {} /\ pc = "exited"
    \/ ffmpeg_calls > 0 /\ returncode = None

C7_FatalErrors ==
    FatalOccurred =>
        /\ pc = "exited"
        /\ exit_status # None
        /\ exit_status # Some(0)
        /\ last_print \in FatalMessages

\* C9: once ffmpeg has been launched and has exited, the success message is
\* printed exactly when its status is zero; otherwise the failure message is
\* printed and never the success message; either way the process ends with
\* status 0.
C9_TranscodeReport ==
    returncode # None =>
        /\ SuccessMessage \in stdout <=> returncode = Some(0)
        /\ FailureMessage \in stdout <=> returncode # Some(0)
        /\ pc = "exited"
        /\ exit_status = Some(0)
        /\ uncaught = None

C9_Witness ==
    /\ returncode = Some(1)
    /\ last_print = FailureMessage
    /\ SuccessMessage \notin stdout
    /\ exit_status = Some(0)

\* C10: the first probe precedes every selection; the builder probes a second
\* time exactly when no external path is in effect (the path is None or
\* empty) and the resolved subtitle index is not None; the burn-in position
\* is the one in the second probe's result; ffmpeg is run at most once and
\* only after every probe returned successfully.
ExternalInEffect == args.external_subs \notin {None, Some("")}

C10_ProbeSchedule ==
    /\ Len(probes) <= 2
    /\ ffmpeg_calls <= 1
    /\ probes = <<>> =>
          /\ ~prompted /\ ~built
          /\ audio_track_index = args.audio_track
          /\ subtitle_track_index = args.subtitle_track
    /\ Len(probes) = 2 => built
    /\ (built /\ pc # "build_list_tracks") =>
          (Len(probes) = 2 <=> (~ExternalInEffect /\ subtitle_track_index # None))
    /\ sub_order # None =>
          sub_order = Some(SubtitlePosition(build_streams, subtitle_track_index[1]))
    /\ ffmpeg_calls > 0 =>
          /\ cmd # None
          /\ \A i \in 1..Len(probes) : probes[i] = "ok"

C10_Witness ==
    /\ ffmpeg_calls = 1
    /\ Len(probes) = 2
    /\ prompted
    /\ subtitle_track_index = Some(2)
    /\ subtitle_tracks = <<[ff_index |-> 2]>>
    /\ sub_order = Some(1)

\* C8: list_tracks puts each audio stream exactly once in the audio list,
\* each subtitle stream exactly once in the subtitle list, every other stream
\* in neither and no stream in both, and keeps each list in probe order.
Holds(tracks, idx) == {j \in 1..Len(tracks) : tracks[j].ff_index = idx}

InProbeOrder(strs, tracks) ==
    \A j \in 1..Len(tracks), k \in 1..Len(tracks) :
        j < k =>
            (CHOOSE i \in 1..Len(strs) : strs[i].index = tracks[j].ff_index)
                < (CHOOSE i \in 1..Len(strs) : strs[i].index = tracks[k].ff_index)

Partitioned(strs, audio, subtitle) ==
    /\ \A i \in 1..Len(strs) :
          /\ Cardinality(Holds(audio, strs[i].index)) =
                (IF strs[i].codec_type = "audio" THEN 1 ELSE 0)
          /\ Cardinality(Holds(subtitle, strs[i].index)) =
                (IF strs[i].codec_type = "subtitle" THEN 1 ELSE 0)
    /\ Len(audio) = Cardinality(Of(strs, "audio"))
    /\ Len(subtitle) = Cardinality(Of(strs, "subtitle"))
    /\ InProbeOrder(strs, audio)
    /\ InProbeOrder(strs, subtitle)

C8_Partition ==
    /\ FirstProbeOk => Partitioned(streams, audio_tracks, subtitle_tracks)
    /\ SecondProbeOk =>
          Partitioned(build_streams, list_tracks(build_streams).audio,
                      build_subtitle_tracks)

C8_Witness ==
    /\ FirstProbeOk
    /\ Len(streams) = 3
    /\ streams[2].codec_type = "video"
    /\ Len(audio_tracks) = 2
    /\ SecondProbeOk
    /\ Len(build_subtitle_tracks) = 2

====
